---- MODULE Spec2Model ----
(***************************************************************************)
(* The "sell my car" conversation of src/app.py: the aiogram FSM session   *)
(* of every Telegram user, the handlers registered on the router, the      *)
(* users and sell_leads tables, and the staff notification; the catalog,   *)
(* manager and language callbacks of the bot; and the admin panel of the   *)
(* web application: the login, the admin cookie and the creation of        *)
(* brands and cars with their photos.                                      *)
(*                                                                         *)
(* A handler is a coroutine.  It is modelled as a task whose pc moves      *)
(* from one real suspension point to the next: the database calls          *)
(* (aiosqlite runs them in a thread) and the Telegram API calls.  The      *)
(* FSM storage is aiogram's default MemoryStorage, whose coroutines never  *)
(* suspend, and the dispatcher has no event isolation, so the code         *)
(* between two suspension points runs as one step and several tasks of     *)
(* one user may be in flight together.                                     *)
(*                                                                         *)
(* A text is a tuple of one-character strings.                             *)
(***************************************************************************)
EXTENDS Integers, Sequences, FiniteSets, TLC

VARIABLES
    fsm_state,   \* user -> "none" or the SellCarFlow state of the user
    fsm_data,    \* user -> the FSM data dictionary (key -> text)
    users,       \* table users: user -> "absent" | "ru" | "uz"
    sell_leads,  \* table sell_leads, in insertion order
    tasks,       \* slot -> the handler execution in flight in that slot
    notified,    \* the messages notify_admins delivered: [to, text]
    response,    \* how the last finished webhook call ended: "ok" or "error"
    faults,      \* the failures of the database and of the Telegram API so far
    used,        \* what a run of Spec has used up of its bounds: the updates
                 \* delivered, the unusual replies among them, the updates
                 \* delivered while a handler was still in flight, and the
                 \* requests made to the admin panel
    script,      \* the replies a scripted user is going to give, in order
    pos,         \* how many events of the script were delivered
    call,        \* the arguments of the one call of t or of the phone check
                 \* that SpecPure evaluates
    result,      \* what that call returned, "none" before it
    brands,      \* table brands, in insertion order: the id is the position
    cars,        \* table cars, in insertion order: the id is the position
    car_photos,  \* table car_photos, in insertion order
    uploads,     \* the files written to UPLOAD_DIR, in the order written
    cookies,     \* the "ts" of the admin cookies the application has signed
    now,         \* time.time(), in days
    req,         \* the request to the admin panel that is being handled
    http         \* the response to the last request to the admin panel

vars == <<fsm_state, fsm_data, users, sell_leads, tasks, notified, response,
          faults, used, script, pos, call, result,
          brands, cars, car_photos, uploads, cookies, now, req, http>>

----------------------------------------------------------------------------
(* Bounds of the model *)

MaxTasks == 2       \* handler executions in flight at the same time
MaxOverlap == 1     \* updates delivered while a handler is still in flight
MaxEvents == 10     \* updates delivered in one run of Spec
MaxOdd == 1         \* whitespace-only replies at the steps brand..name
MaxFaults == 1      \* failures of the database or the Telegram API in one run
MaxBadPhones == 2   \* invalid phone attempts of a scripted user
MaxRaceEvents == 5  \* updates delivered in one run of SpecRace
MaxHead == 2        \* leading characters of a phone reply, from PhoneAlphabet
MaxTail == 7        \* characters after them, from PhoneTail
MaxRequests == 3    \* requests to the admin panel in one run of SpecAdmin
MaxUploads == 6     \* files uploaded with one car
MaxDays == 45       \* days the clock runs
MaxTaps == 2        \* buttons of the catalog tapped in one run of SpecCatalog

Users == {"u1", "u2"}
Slots == 1..MaxTasks

\* SETTINGS.admin_tg_ids, a configured list
Admins == <<"adm1", "adm2">>

----------------------------------------------------------------------------
(* Texts *)

Digits == {"0", "1", "2", "3", "4", "5", "6", "7", "8", "9"}
Whitespace == {" ", "\t", "\n"}

RECURSIVE LStrip(_)
LStrip(s) == IF s # <<>> /\ Head(s) \in Whitespace THEN LStrip(Tail(s)) ELSE s

RECURSIVE RStrip(_)
RStrip(s) ==
    IF s # <<>> /\ s[Len(s)] \in Whitespace
    THEN RStrip(SubSeq(s, 1, Len(s) - 1))
    ELSE s

\* str.strip()
Strip(s) == RStrip(LStrip(s))

\* PHONE_RE.match(s): ^\+?\d[\d\s\-()]{7,}$
PhoneMatch(s) ==
    LET body == IF s # <<>> /\ Head(s) = "+" THEN Tail(s) ELSE s
    IN  /\ Len(body) >= 8
        /\ body[1] \in Digits
        /\ \A i \in 2..Len(body) : body[i] \in Digits \cup Whitespace \cup {"-", "(", ")"}

\* The filter Command("start"): the first word of text.split() is /start
IsStartCommand(s) ==
    LET w == LStrip(s)
    IN  /\ Len(w) >= 6
        /\ SubSeq(w, 1, 6) = <<"/", "s", "t", "a", "r", "t">>
        /\ (Len(w) > 6 => w[7] \in Whitespace)

DigitSeq == <<"0", "1", "2", "3", "4", "5", "6", "7", "8", "9">>

\* The text without a leading sign
Unsigned(s) == IF s # <<>> /\ Head(s) \in {"+", "-"} THEN Tail(s) ELSE s

\* int(s) returns: blanks around, an optional sign, then digits only
IsIntText(s) ==
    LET body == Unsigned(Strip(s))
    IN  body # <<>> /\ \A i \in 1..Len(body) : body[i] \in Digits

RECURSIVE DigitsValue(_)
DigitsValue(d) ==
    IF d = <<>> THEN 0
    ELSE 10 * DigitsValue(SubSeq(d, 1, Len(d) - 1))
         + (CHOOSE n \in 0..9 : DigitSeq[n + 1] = d[Len(d)])

\* int(s), for a text int accepts
IntOf(s) ==
    LET w == Strip(s)
    IN  IF w # <<>> /\ Head(w) = "-"
        THEN 0 - DigitsValue(Unsigned(w))
        ELSE DigitsValue(Unsigned(w))

----------------------------------------------------------------------------
(* The flow *)

\* class SellCarFlow, in declaration order
Steps == <<"brand", "model", "year", "color", "price", "condition", "name", "phone">>
StepSet == {Steps[i] : i \in 1..Len(Steps)}

StepIndex(st) == CHOOSE i \in 1..Len(Steps) : Steps[i] = st

\* The key each of sell_brand .. sell_name passes to state.update_data
FieldOf(st) ==
    CASE st = "brand" -> "brand_text"
      [] st = "model" -> "model_text"
      [] st = "year" -> "year"
      [] st = "color" -> "color"
      [] st = "price" -> "price_wanted"
      [] st = "condition" -> "condition"
      [] st = "name" -> "full_name"

\* The state each of sell_brand .. sell_name passes to state.set_state
NextStep(st) == Steps[StepIndex(st) + 1]

\* The prompt each of sell_brand .. sell_name answers with
PromptOf(st) ==
    CASE st = "brand" -> "sell_q_brand"
      [] st = "model" -> "sell_q_model"
      [] st = "year" -> "sell_q_year"
      [] st = "color" -> "sell_q_color"
      [] st = "price" -> "sell_q_price"
      [] st = "condition" -> "sell_q_condition"
      [] st = "name" -> "sell_q_name"
      [] st = "phone" -> "sell_q_phone"

\* The fields of the steps that precede step st; none at Idle and at brand
Preceding(st) ==
    IF st = "none" THEN {}
    ELSE {FieldOf(Steps[i]) : i \in 1..(StepIndex(st) - 1)}

EmptyData == [k \in {} |-> <<>>]

\* dict.get(key, "")
DataGet(d, k) == IF k \in DOMAIN d THEN d[k] ELSE <<>>

\* state.update_data(key=value)
UpdateData(d, k, v) == [x \in DOMAIN d \cup {k} |-> IF x = k THEN v ELSE d[x]]

\* LeadRow with the values of full_name and brand_text bound to each
\* other's placeholder
LeadRowSwapped(u, lang, data, phone) ==
    [lang |-> lang,
     full_name |-> DataGet(data, "brand_text"),
     phone |-> phone,
     brand_text |-> DataGet(data, "full_name"),
     model_text |-> DataGet(data, "model_text"),
     year |-> DataGet(data, "year"),
     color |-> DataGet(data, "color"),
     price_wanted |-> DataGet(data, "price_wanted"),
     condition |-> DataGet(data, "condition"),
     status |-> "new",
     by |-> u]

\* The row sell_phone inserts into sell_leads.  "by" is not a column: it
\* records the user whose reply made the row.  created_at is left out.
LeadRow(u, lang, data, phone) ==
    [lang |-> lang,
     full_name |-> DataGet(data, "full_name"),
     phone |-> phone,
     brand_text |-> DataGet(data, "brand_text"),
     model_text |-> DataGet(data, "model_text"),
     year |-> DataGet(data, "year"),
     color |-> DataGet(data, "color"),
     price_wanted |-> DataGet(data, "price_wanted"),
     condition |-> DataGet(data, "condition"),
     status |-> "new",
     by |-> u]

\* NotifyText with the brand and the model in each other's place
NotifyTextSwapped(data, phone) ==
    <<DataGet(data, "full_name"), phone,
      DataGet(data, "model_text"), DataGet(data, "brand_text"),
      DataGet(data, "year"), DataGet(data, "color"),
      DataGet(data, "price_wanted"), DataGet(data, "condition"),
      <<"/admin/leads">> >>

\* The parts of the text sell_phone passes to notify_admins, in order
NotifyText(data, phone) ==
    <<DataGet(data, "full_name"), phone,
      DataGet(data, "brand_text"), DataGet(data, "model_text"),
      DataGet(data, "year"), DataGet(data, "color"),
      DataGet(data, "price_wanted"), DataGet(data, "condition"),
      <<"/admin/leads">> >>

----------------------------------------------------------------------------
(* Tasks *)

\* The store and the state of the web application
web == <<brands, cars, car_photos, uploads, cookies, now, req, http>>

\* What the handlers of the bot leave alone
env == <<used, script, pos, call, result, web>>

\* No request to the admin panel is being handled
NoReq == [route |-> "none", pc |-> "none"]

\* No brand, car or photo was created, nobody has logged in
WebInit ==
    /\ brands = <<>>
    /\ cars = <<>>
    /\ car_photos = <<>>
    /\ uploads = <<>>
    /\ cookies = {}
    /\ now = 0
    /\ req = NoReq
    /\ http = [status |-> 0]

\* No call of a pure function is being evaluated
NoCall == [f |-> "none"]

Idle ==
    [pc |-> "idle", h |-> "", u |-> "", text |-> <<>>, lang |-> "",
     data |-> EmptyData, phone |-> <<>>, say |-> "", i |-> 0, shown |-> {}]

Free(s) == tasks[s].pc = "idle"
InFlight(s) == ~Free(s)

\* The handler goes on to its next suspension point
Continue(s, t) ==
    /\ tasks' = [tasks EXCEPT ![s] = t]
    /\ UNCHANGED response

\* The handler returned: tg_webhook answers {"ok": "true"}
Return(s) ==
    /\ tasks' = [tasks EXCEPT ![s] = Idle]
    /\ response' = "ok"

\* An exception left the handler and tg_webhook
Raise(s) ==
    /\ tasks' = [tasks EXCEPT ![s] = Idle]
    /\ response' = "error"

\* Route without the filter F.text
RouteWithoutTextFilter(u, upd) ==
    IF upd.kind = "callback"
    THEN CASE upd.data = "lang:" -> "cb_set_lang"
           [] upd.data = "menu:lang" -> "cb_lang_menu"
           [] upd.data = "menu:home" -> "cb_home"
           [] upd.data = "menu:catalog" -> "cb_catalog"
           [] upd.data = "brand:" -> "cb_brand"
           [] upd.data = "car:" -> "cb_car"
           [] upd.data = "car_contact:" -> "cb_car_contact"
           [] upd.data = "menu:managers" -> "cb_managers"
           [] upd.data = "menu:sell" -> "cb_sell"
           [] OTHER -> "unhandled"
    ELSE IF IsStartCommand(upd.text) THEN "cmd_start"
    ELSE IF fsm_state[u] \in StepSet THEN fsm_state[u]
    ELSE "unhandled"

\* Route with the handlers of the steps registered before cmd_start
RouteStepsFirst(u, upd) ==
    IF upd.kind = "callback"
    THEN CASE upd.data = "lang:" -> "cb_set_lang"
           [] upd.data = "menu:lang" -> "cb_lang_menu"
           [] upd.data = "menu:home" -> "cb_home"
           [] upd.data = "menu:catalog" -> "cb_catalog"
           [] upd.data = "brand:" -> "cb_brand"
           [] upd.data = "car:" -> "cb_car"
           [] upd.data = "car_contact:" -> "cb_car_contact"
           [] upd.data = "menu:managers" -> "cb_managers"
           [] upd.data = "menu:sell" -> "cb_sell"
           [] OTHER -> "unhandled"
    ELSE IF upd.text = <<>> THEN "unhandled"
    ELSE IF fsm_state[u] \in StepSet THEN fsm_state[u]
    ELSE IF IsStartCommand(upd.text) THEN "cmd_start"
    ELSE "unhandled"

\* The handler the router picks for an update, in registration order.  A
\* message without text (a photo, a sticker, ...) has the text <<>>.  The
\* data of a callback that a handler matches with startswith is written as
\* the prefix, in data, and what follows it, in arg.
Route(u, upd) ==
    IF upd.kind = "callback"
    THEN CASE upd.data = "lang:" -> "cb_set_lang"
           [] upd.data = "menu:lang" -> "cb_lang_menu"
           [] upd.data = "menu:home" -> "cb_home"
           [] upd.data = "menu:catalog" -> "cb_catalog"
           [] upd.data = "brand:" -> "cb_brand"
           [] upd.data = "car:" -> "cb_car"
           [] upd.data = "car_contact:" -> "cb_car_contact"
           [] upd.data = "menu:managers" -> "cb_managers"
           [] upd.data = "menu:sell" -> "cb_sell"
           [] OTHER -> "unhandled"
    ELSE IF upd.text = <<>> THEN "unhandled"
    ELSE IF IsStartCommand(upd.text) THEN "cmd_start"
    ELSE IF fsm_state[u] \in StepSet THEN fsm_state[u]
    ELSE "unhandled"

\* tg_webhook: dp.feed_update picks the handler and starts it; the handler
\* runs to its first suspension point.  An update no handler takes is
\* answered at once.
FeedUpdate(u, upd) ==
    LET h == Route(u, upd)
        s == CHOOSE x \in Slots : Free(x) /\ \A y \in Slots : Free(y) => x <= y
    IN  IF h = "unhandled"
        THEN /\ response' = "ok"
             /\ UNCHANGED tasks
        ELSE Continue(s, [Idle EXCEPT
                 !.pc = IF h \in {"cmd_start", "cb_lang_menu"} THEN "answer"
                        ELSE IF h = "cb_set_lang" THEN "set_lang"
                        ELSE "lang",
                 !.h = h, !.u = u,
                 !.say = IF h \in {"cmd_start", "cb_lang_menu"}
                         THEN "choose_lang" ELSE "",
                 !.lang = IF h \in {"cmd_start", "cb_lang_menu"} THEN "ru" ELSE "",
                 !.text = IF upd.kind = "message" THEN upd.text
                          ELSE IF "arg" \in DOMAIN upd THEN upd.arg
                          ELSE <<>>])

----------------------------------------------------------------------------
(* get_user_lang: SELECT, and INSERT when the user has no row *)

\* The SELECT returned: the row's lang, or no row and the INSERT is next
GetUserLangSelect(s) ==
    LET t == tasks[s]
    IN  /\ t.pc = "lang"
        /\ IF users[t.u] # "absent"
           THEN Continue(s, [t EXCEPT !.pc = "body", !.lang = users[t.u]])
           ELSE Continue(s, [t EXCEPT !.pc = "lang_ins"])
        /\ UNCHANGED <<fsm_state, fsm_data, users, sell_leads, notified, faults, env>>

\* The INSERT and commit: tg_id is the primary key, so the INSERT raises
\* when a row of the user has appeared since the SELECT
GetUserLangInsert(s) ==
    LET t == tasks[s]
    IN  /\ t.pc = "lang_ins"
        /\ IF users[t.u] = "absent"
           THEN /\ users' = [users EXCEPT ![t.u] = "ru"]
                /\ Continue(s, [t EXCEPT !.pc = "body", !.lang = "ru"])
           ELSE /\ UNCHANGED users
                /\ Raise(s)
        /\ UNCHANGED <<fsm_state, fsm_data, sell_leads, notified, faults, env>>

----------------------------------------------------------------------------
(* The handlers, from the return of get_user_lang to the next suspension *)

\* CbSell without state.clear()
CbSellKeepsData(s) ==
    LET t == tasks[s]
    IN  /\ t.pc = "body" /\ t.h = "cb_sell"
        /\ fsm_state' = [fsm_state EXCEPT ![t.u] = "brand"]
        /\ UNCHANGED fsm_data
        /\ Continue(s, [t EXCEPT !.pc = "answer", !.say = "sell_q_brand"])
        /\ UNCHANGED <<users, sell_leads, notified, faults, env>>

\* cb_sell: state.clear(), state.set_state(SellCarFlow.brand), then edit_text
CbSell(s) ==
    LET t == tasks[s]
    IN  /\ t.pc = "body" /\ t.h = "cb_sell"
        /\ fsm_state' = [fsm_state EXCEPT ![t.u] = "brand"]
        /\ fsm_data' = [fsm_data EXCEPT ![t.u] = EmptyData]
        /\ Continue(s, [t EXCEPT !.pc = "answer", !.say = "sell_q_brand"])
        /\ UNCHANGED <<users, sell_leads, notified, faults, env>>

\* cb_home: edit_text with the main menu
CbHome(s) ==
    LET t == tasks[s]
    IN  /\ t.pc = "body" /\ t.h = "cb_home"
        /\ Continue(s, [t EXCEPT !.pc = "answer", !.say = "menu_title"])
        /\ UNCHANGED <<fsm_state, fsm_data, users, sell_leads, notified, faults, env>>

\* set_user_lang without the normalisation of the language
SetUserLangStoresAny(s) ==
    LET t == tasks[s]
        lang == Strip(t.text)
        stored == IF lang = <<"u", "z">> THEN "uz"
                  ELSE IF lang = <<"r", "u">> THEN "ru" ELSE "other"
    IN  /\ t.pc = "set_lang"
        /\ users' = [users EXCEPT ![t.u] = stored]
        /\ Continue(s, [t EXCEPT !.pc = "answer", !.say = "menu_title",
                                 !.lang = IF stored = "uz" THEN "uz" ELSE "ru"])
        /\ UNCHANGED <<fsm_state, fsm_data, sell_leads, notified, faults, env>>

\* SetUserLang with a state.clear() in cb_set_lang
SetUserLangClearsState(s) ==
    LET t == tasks[s]
        lang == IF Strip(t.text) = <<"u", "z">> THEN "uz" ELSE "ru"
    IN  /\ t.pc = "set_lang"
        /\ users' = [users EXCEPT ![t.u] = lang]
        /\ fsm_state' = [fsm_state EXCEPT ![t.u] = "none"]
        /\ fsm_data' = [fsm_data EXCEPT ![t.u] = EmptyData]
        /\ Continue(s, [t EXCEPT !.pc = "answer", !.say = "menu_title",
                                 !.lang = lang])
        /\ UNCHANGED <<sell_leads, notified, faults, env>>

\* cb_set_lang: lang = query.data.split(":", 1)[1].strip(), then
\* set_user_lang: "uz" is stored as "uz", anything else as "ru", with an
\* INSERT that updates the row when the user has one; then edit_text
SetUserLang(s) ==
    LET t == tasks[s]
        lang == IF Strip(t.text) = <<"u", "z">> THEN "uz" ELSE "ru"
    IN  /\ t.pc = "set_lang"
        /\ users' = [users EXCEPT ![t.u] = lang]
        /\ Continue(s, [t EXCEPT !.pc = "answer", !.say = "menu_title",
                                 !.lang = lang])
        /\ UNCHANGED <<fsm_state, fsm_data, sell_leads, notified, faults, env>>

\* cb_catalog: SELECT the brands, then edit_text
CbCatalog(s) ==
    LET t == tasks[s]
    IN  /\ t.pc = "body" /\ t.h = "cb_catalog"
        /\ Continue(s, [t EXCEPT !.pc = "answer",
                                 !.say = IF brands = <<>> THEN "catalog_empty"
                                         ELSE "catalog_choose_brand"])
        /\ UNCHANGED <<fsm_state, fsm_data, users, sell_leads, notified, faults, env>>

\* CarsOfBrand without c.active=1 in the WHERE clause
CarsOfBrandAnyFlag(b) == {c \in DOMAIN cars : cars[c].brand_id = b}

\* cb_brand: SELECT c.* FROM cars c WHERE c.active=1 AND c.brand_id=?
CarsOfBrand(b) ==
    {c \in DOMAIN cars : cars[c].active = 1 /\ cars[c].brand_id = b}

\* cb_car, car_page: SELECT ... FROM cars c JOIN brands b ON b.id=c.brand_id
\* ... WHERE c.id=? AND c.active=1 returns a row
CarFound(id) ==
    /\ id \in DOMAIN cars
    /\ cars[id].active = 1
    /\ cars[id].brand_id \in DOMAIN brands

\* cb_brand: int(...) of what follows "brand:", SELECT the active cars of
\* the brand, then edit_text with one button for each of them; shown is
\* the set of the cars a handler puts into its message
CbBrand(s) ==
    LET t == tasks[s]
        found == CarsOfBrand(IntOf(t.text))
    IN  /\ t.pc = "body" /\ t.h = "cb_brand"
        /\ IF ~IsIntText(t.text)
           THEN Raise(s)
           ELSE Continue(s, [t EXCEPT !.pc = "answer",
                                      !.say = IF found = {} THEN "brand_empty"
                                              ELSE "cars",
                                      !.shown = found])
        /\ UNCHANGED <<fsm_state, fsm_data, users, sell_leads, notified, faults, env>>

\* cb_car: int(...) of what follows "car:", SELECT the car when it is
\* active and has its brand, SELECT its first photo; then edit_text, or
\* send_photo when the car has a photo
CbCar(s) ==
    LET t == tasks[s]
        id == IntOf(t.text)
        photos == {i \in DOMAIN car_photos : car_photos[i].car_id = id}
    IN  /\ t.pc = "body" /\ t.h = "cb_car"
        /\ IF ~IsIntText(t.text) THEN Raise(s)
           ELSE IF ~CarFound(id)
           THEN Continue(s, [t EXCEPT !.pc = "answer", !.say = "not_found"])
           ELSE IF photos # {}
           THEN Continue(s, [t EXCEPT !.pc = "photo", !.say = "car",
                                      !.shown = {id}])
           ELSE Continue(s, [t EXCEPT !.pc = "answer", !.say = "car",
                                      !.shown = {id}])
        /\ UNCHANGED <<fsm_state, fsm_data, users, sell_leads, notified, faults, env>>

\* cb_car: bot.send_photo delivered the photo with the text
SendPhoto(s) ==
    LET t == tasks[s]
    IN  /\ t.pc = "photo"
        /\ Return(s)
        /\ UNCHANGED <<fsm_state, fsm_data, users, sell_leads, notified, faults, env>>

\* cb_car: bot.send_photo raised; the exception is caught and the text is
\* sent with edit_text
SendPhotoFails(s) ==
    LET t == tasks[s]
    IN  /\ t.pc = "photo"
        /\ Len(faults) < MaxFaults
        /\ faults' = Append(faults, "photo")
        /\ Continue(s, [t EXCEPT !.pc = "answer"])
        /\ UNCHANGED <<fsm_state, fsm_data, users, sell_leads, notified, env>>

\* Table managers: created by db_init, and no statement of app.py writes it
managers == <<>>

\* cb_car_contact, cb_managers: SELECT the active managers, then edit_text
CbManagers(s) ==
    LET t == tasks[s]
    IN  /\ t.pc = "body" /\ t.h \in {"cb_car_contact", "cb_managers"}
        /\ Continue(s, [t EXCEPT !.pc = "answer",
                                 !.say = IF managers = <<>> THEN "managers_empty"
                                         ELSE "managers_title"])
        /\ UNCHANGED <<fsm_state, fsm_data, users, sell_leads, notified, faults, env>>

\* SellAnswer with an FSM storage that keeps one record for all users
SellAnswerSharedRecord(s) ==
    LET t == tasks[s]
    IN  /\ t.pc = "body" /\ t.h \in StepSet \ {"phone"}
        /\ fsm_data' = [u \in Users |->
                           UpdateData(fsm_data[u], FieldOf(t.h), Strip(t.text))]
        /\ fsm_state' = [u \in Users |-> NextStep(t.h)]
        /\ Continue(s, [t EXCEPT !.pc = "answer", !.say = PromptOf(NextStep(t.h))])
        /\ UNCHANGED <<users, sell_leads, notified, faults, env>>

\* SellAnswer with state.set_data in place of state.update_data
SellAnswerDropsFields(s) ==
    LET t == tasks[s]
    IN  /\ t.pc = "body" /\ t.h \in StepSet \ {"phone"}
        /\ fsm_data' = [fsm_data EXCEPT
                           ![t.u] = UpdateData(EmptyData, FieldOf(t.h), Strip(t.text))]
        /\ fsm_state' = [fsm_state EXCEPT ![t.u] = NextStep(t.h)]
        /\ Continue(s, [t EXCEPT !.pc = "answer", !.say = PromptOf(NextStep(t.h))])
        /\ UNCHANGED <<users, sell_leads, notified, faults, env>>

\* sell_brand .. sell_name: state.update_data(<field>=message.text.strip()),
\* state.set_state(<next state>), then message.answer(<next prompt>)
SellAnswer(s) ==
    LET t == tasks[s]
    IN  /\ t.pc = "body" /\ t.h \in StepSet \ {"phone"}
        /\ fsm_data' = [fsm_data EXCEPT
                           ![t.u] = UpdateData(fsm_data[t.u], FieldOf(t.h), Strip(t.text))]
        /\ fsm_state' = [fsm_state EXCEPT ![t.u] = NextStep(t.h)]
        /\ Continue(s, [t EXCEPT !.pc = "answer", !.say = PromptOf(NextStep(t.h))])
        /\ UNCHANGED <<users, sell_leads, notified, faults, env>>

\* SellPhoneCheck with state.get_data() and state.clear() moved before the
\* phone check
SellPhoneCheckClearsFirst(s) ==
    LET t == tasks[s]
        phone == Strip(t.text)
    IN  /\ t.pc = "body" /\ t.h = "phone"
        /\ fsm_state' = [fsm_state EXCEPT ![t.u] = "none"]
        /\ fsm_data' = [fsm_data EXCEPT ![t.u] = EmptyData]
        /\ IF ~PhoneMatch(phone)
           THEN Continue(s, [t EXCEPT !.pc = "answer", !.say = "invalid_phone"])
           ELSE Continue(s, [t EXCEPT !.pc = "insert", !.phone = phone,
                                      !.data = fsm_data[t.u]])
        /\ UNCHANGED <<users, sell_leads, notified, faults, env>>

\* SellPhoneCheck without the phone check
SellPhoneCheckSkipped(s) ==
    LET t == tasks[s]
        phone == Strip(t.text)
    IN  /\ t.pc = "body" /\ t.h = "phone"
        /\ Continue(s, [t EXCEPT !.pc = "insert", !.phone = phone,
                                 !.data = fsm_data[t.u]])
        /\ fsm_state' = [fsm_state EXCEPT ![t.u] = "none"]
        /\ fsm_data' = [fsm_data EXCEPT ![t.u] = EmptyData]
        /\ UNCHANGED <<users, sell_leads, notified, faults, env>>

\* SellPhoneCheck without state.clear()
SellPhoneCheckKeepsSession(s) ==
    LET t == tasks[s]
        phone == Strip(t.text)
    IN  /\ t.pc = "body" /\ t.h = "phone"
        /\ IF ~PhoneMatch(phone)
           THEN Continue(s, [t EXCEPT !.pc = "answer", !.say = "invalid_phone"])
           ELSE Continue(s, [t EXCEPT !.pc = "insert", !.phone = phone,
                                      !.data = fsm_data[t.u]])
        /\ UNCHANGED <<fsm_state, fsm_data>>
        /\ UNCHANGED <<users, sell_leads, notified, faults, env>>

\* sell_phone up to db_connect: the phone check; when it passes,
\* state.get_data() and state.clear()
SellPhoneCheck(s) ==
    LET t == tasks[s]
        phone == Strip(t.text)
    IN  /\ t.pc = "body" /\ t.h = "phone"
        /\ IF ~PhoneMatch(phone)
           THEN /\ Continue(s, [t EXCEPT !.pc = "answer", !.say = "invalid_phone"])
                /\ UNCHANGED <<fsm_state, fsm_data>>
           ELSE /\ Continue(s, [t EXCEPT !.pc = "insert", !.phone = phone,
                                         !.data = fsm_data[t.u]])
                /\ fsm_state' = [fsm_state EXCEPT ![t.u] = "none"]
                /\ fsm_data' = [fsm_data EXCEPT ![t.u] = EmptyData]
        /\ UNCHANGED <<users, sell_leads, notified, faults, env>>

\* SellPhoneInsert with an INSERT that replaces the rows stored before
SellPhoneInsertReplaces(s) ==
    LET t == tasks[s]
    IN  /\ t.pc = "insert"
        /\ sell_leads' = <<LeadRow(t.u, t.lang, t.data, t.phone)>>
        /\ Continue(s, [t EXCEPT !.pc = "answer", !.say = "sell_done"])
        /\ UNCHANGED <<fsm_state, fsm_data, users, notified, faults, env>>

\* sell_phone: the INSERT INTO sell_leads and the commit succeeded
SellPhoneInsert(s) ==
    LET t == tasks[s]
    IN  /\ t.pc = "insert"
        /\ sell_leads' = Append(sell_leads, LeadRow(t.u, t.lang, t.data, t.phone))
        /\ Continue(s, [t EXCEPT !.pc = "answer", !.say = "sell_done"])
        /\ UNCHANGED <<fsm_state, fsm_data, users, notified, faults, env>>

\* sell_phone: db_connect, the INSERT or the commit raised; the finally
\* clause closes the connection and the exception leaves the handler
SellPhoneInsertFails(s) ==
    LET t == tasks[s]
    IN  /\ t.pc = "insert"
        /\ Len(faults) < MaxFaults
        /\ faults' = Append(faults, "insert")
        /\ Raise(s)
        /\ UNCHANGED <<fsm_state, fsm_data, users, sell_leads, notified, env>>

\* message.answer / query.message.edit_text delivered the text; sell_phone
\* goes on to notify_admins, every other handler returns
Answer(s) ==
    LET t == tasks[s]
    IN  /\ t.pc = "answer"
        /\ IF t.h = "phone" /\ t.say = "sell_done" /\ Len(Admins) > 0
           THEN Continue(s, [t EXCEPT !.pc = "notify", !.i = 1])
           ELSE Return(s)
        /\ UNCHANGED <<fsm_state, fsm_data, users, sell_leads, notified, faults, env>>

\* message.answer / query.message.edit_text raised
AnswerFails(s) ==
    LET t == tasks[s]
    IN  /\ t.pc = "answer"
        /\ Len(faults) < MaxFaults
        /\ faults' = Append(faults, "answer")
        /\ Raise(s)
        /\ UNCHANGED <<fsm_state, fsm_data, users, sell_leads, notified, env>>

\* What follows one turn of the loop of notify_admins
NotifyNext(s) ==
    LET t == tasks[s]
    IN  IF t.i < Len(Admins)
        THEN Continue(s, [t EXCEPT !.i = t.i + 1])
        ELSE Return(s)

\* notify_admins: bot.send_message(admin_id, text) delivered the text
Notify(s) ==
    LET t == tasks[s]
    IN  /\ t.pc = "notify"
        /\ notified' = notified \cup
               {[to |-> Admins[t.i], text |-> NotifyText(t.data, t.phone)]}
        /\ NotifyNext(s)
        /\ UNCHANGED <<fsm_state, fsm_data, users, sell_leads, faults, env>>

\* NotifyFails without the try/except around bot.send_message
NotifyFailsRaises(s) ==
    LET t == tasks[s]
    IN  /\ t.pc = "notify"
        /\ Len(faults) < MaxFaults
        /\ faults' = Append(faults, "notify")
        /\ Raise(s)
        /\ UNCHANGED <<fsm_state, fsm_data, users, sell_leads, notified, env>>

\* notify_admins: bot.send_message raised; the exception is caught and dropped
NotifyFails(s) ==
    LET t == tasks[s]
    IN  /\ t.pc = "notify"
        /\ Len(faults) < MaxFaults
        /\ faults' = Append(faults, "notify")
        /\ NotifyNext(s)
        /\ UNCHANGED <<fsm_state, fsm_data, users, sell_leads, notified, env>>

----------------------------------------------------------------------------
(* The users of Spec: what they tap and type *)

\* The answer a user types to a question
Plain(u) == IF u = "u1" THEN <<" ", "a">> ELSE <<"b", " ">>

Blank == <<" ">>

\* The phone number a user types
GoodPhone(u) ==
    IF u = "u1"
    THEN <<"+", "9", "9", "8", "9", "0", "1", "2", "3">>
    ELSE <<" ", "8", "(", "9", "0", ")", "1", "-", "2", "3">>

\* What a user may type now: the plain answer or nothing but a blank at
\* any time, the phone number when the phone is asked for
Texts(u) ==
    {Plain(u), Blank} \cup (IF fsm_state[u] = "phone" THEN {GoodPhone(u)} ELSE {})

\* A blank reply while the phone is not asked for: MaxOdd bounds how many
\* of them a run has
Unusual(u, txt) == fsm_state[u] # "phone" /\ txt = Blank

SomeSlotFree == \E s \in Slots : Free(s)
AllReturned == \A s \in Slots : Free(s)

\* An update that is delivered while a handler is still in flight
Overlaps(u, upd) == ~AllReturned /\ Route(u, upd) # "unhandled"

\* The bounds allow the delivery of the update
Allowed(u, upd, unusual) ==
    /\ used.events < MaxEvents
    /\ SomeSlotFree
    /\ unusual => used.odd < MaxOdd
    /\ Overlaps(u, upd) => used.overlaps < MaxOverlap

Use(u, upd, unusual) ==
    used' = [events |-> used.events + 1,
             odd |-> IF unusual THEN used.odd + 1 ELSE used.odd,
             overlaps |-> IF Overlaps(u, upd) THEN used.overlaps + 1 ELSE used.overlaps,
             requests |-> used.requests]

\* The user taps an inline button: menu:sell or menu:home
Callback(u, d) ==
    LET upd == [kind |-> "callback", data |-> d]
    IN  /\ Allowed(u, upd, FALSE)
        /\ FeedUpdate(u, upd)
        /\ Use(u, upd, FALSE)
        /\ UNCHANGED <<fsm_state, fsm_data, users, sell_leads, notified, faults,
                       script, pos, call, result, web>>

\* The user sends a text message
Reply(u, txt) ==
    LET upd == [kind |-> "message", text |-> txt]
    IN  /\ Allowed(u, upd, Unusual(u, txt))
        /\ FeedUpdate(u, upd)
        /\ Use(u, upd, Unusual(u, txt))
        /\ UNCHANGED <<fsm_state, fsm_data, users, sell_leads, notified, faults,
                       script, pos, call, result, web>>

\* The state after startup: db_init created empty tables, no FSM record
Init ==
    /\ fsm_state = [u \in Users |-> "none"]
    /\ fsm_data = [u \in Users |-> EmptyData]
    /\ users = [u \in Users |-> "absent"]
    /\ sell_leads = <<>>
    /\ tasks = [s \in Slots |-> Idle]
    /\ notified = {}
    /\ response = "none"
    /\ faults = <<>>
    /\ used = [events |-> 0, odd |-> 0, overlaps |-> 0, requests |-> 0]
    /\ WebInit
    /\ script = <<>>
    /\ pos = 0
    /\ call = NoCall
    /\ result = "none"

Next ==
    \/ \E u \in Users : \E d \in {"menu:sell", "menu:home"} : Callback(u, d)
    \/ \E u \in Users : \E txt \in Texts(u) : Reply(u, txt)
    \/ \E s \in Slots :
          \/ GetUserLangSelect(s)
          \/ GetUserLangInsert(s)
          \/ CbSell(s)
          \/ CbHome(s)
          \/ SellAnswer(s)
          \/ SellPhoneCheck(s)
          \/ SellPhoneInsert(s)
          \/ SellPhoneInsertFails(s)
          \/ Answer(s)
          \/ AnswerFails(s)
          \/ Notify(s)
          \/ NotifyFails(s)

Spec == Init /\ [][Next]_vars

----------------------------------------------------------------------------
(* One user who answers the eight questions in order, each reply sent     *)
(* after the handler of the previous one returned, nothing failing        *)

ScriptUser == "u1"

ScriptAnswers == {<<" ", "a", " ">>, <<" ">>, <<"7">>}
ScriptBadPhones == {<<"a", "b", "c">>, <<"+", "9", "9", "8", "9", "0", "1", "2">>}
ScriptGoodPhones == {GoodPhone("u1"), GoodPhone("u2")}

BadPhoneRuns == UNION {[1..n -> ScriptBadPhones] : n \in 0..MaxBadPhones}

\* Seven answers, some invalid phone attempts, a valid phone
Scripts ==
    {a \o b \o <<g>> : a \in [1..7 -> ScriptAnswers], b \in BadPhoneRuns,
                       g \in ScriptGoodPhones}

InitScript ==
    /\ fsm_state = [u \in Users |-> "none"]
    /\ fsm_data = [u \in Users |-> EmptyData]
    /\ users = [u \in Users |-> "absent"]
    /\ sell_leads = <<>>
    /\ tasks = [s \in Slots |-> Idle]
    /\ notified = {}
    /\ response = "none"
    /\ faults = <<>>
    /\ used = [events |-> 0, odd |-> 0, overlaps |-> 0, requests |-> 0]
    /\ WebInit
    /\ script \in Scripts
    /\ pos = 0
    /\ call = NoCall
    /\ result = "none"

\* The start-sell-flow trigger
ScriptStart ==
    /\ pos = 0
    /\ FeedUpdate(ScriptUser, [kind |-> "callback", data |-> "menu:sell"])
    /\ pos' = 1
    /\ UNCHANGED <<fsm_state, fsm_data, users, sell_leads, notified, faults,
                   used, script, call, result, web>>

\* The next reply of the script
ScriptReply ==
    /\ pos \in 1..Len(script)
    /\ AllReturned
    /\ FeedUpdate(ScriptUser, [kind |-> "message", text |-> script[pos]])
    /\ pos' = pos + 1
    /\ UNCHANGED <<fsm_state, fsm_data, users, sell_leads, notified, faults,
                   used, script, call, result, web>>

NextScript ==
    \/ ScriptStart
    \/ ScriptReply
    \/ \E s \in Slots :
          \/ GetUserLangSelect(s)
          \/ GetUserLangInsert(s)
          \/ CbSell(s)
          \/ SellAnswer(s)
          \/ SellPhoneCheck(s)
          \/ SellPhoneInsert(s)
          \/ Answer(s)
          \/ Notify(s)

SpecScript == InitScript /\ [][NextScript]_vars

----------------------------------------------------------------------------
(* One user whose updates are scripted: texts, messages without text and   *)
(* taps on menu:sell, each delivered after the handler of the previous one *)
(* returned, nothing failing.  The user starts the flow, gives some        *)
(* answers, starts it again and goes through to the end.                   *)

Msg(txt) == [kind |-> "message", text |-> txt]
Trigger == [kind |-> "callback", data |-> "menu:sell"]

\* A message without text
Media == Msg(<<>>)

\* The answer given before the flow is started again, also the text sent
\* while no flow is active
OldText == <<"x">>

\* The seven answers of the pass that is completed
PassAnswers ==
    {<<Msg(<<" ", "a">>), Msg(<<"b", " ">>), Msg(<<"c">>), Msg(<<"d">>),
       Msg(<<"e">>), Msg(<<"f">>), Msg(<<"g">>)>>,
     <<Msg(<<"g">>), Msg(<<"f">>), Msg(<<"e">>), Msg(<<"d">>),
       Msg(<<"c">>), Msg(<<"b", " ">>), Msg(<<" ", "a">>)>>}

InsertAt(seq, j, e) == SubSeq(seq, 1, j) \o <<e>> \o SubSeq(seq, j + 1, Len(seq))

\* What is sent before the first tap, the first k answers, the second tap,
\* the completed pass with a message without text somewhere in it, and
\* what is sent after the completion
SessionScripts ==
    {idle \o <<Trigger>> \o [i \in 1..k |-> Msg(OldText)] \o <<Trigger>>
          \o InsertAt(ans \o bad \o <<Msg(GoodPhone(ScriptUser))>>, j, Media)
          \o after :
        idle \in {<<>>, <<Msg(OldText)>>, <<Media>>},
        k \in 0..(Len(Steps) - 1),
        ans \in PassAnswers,
        bad \in {<<>>, <<Msg(<<"a", "b", "c">>)>>},
        j \in 0..(Len(Steps) - 1),
        after \in {<<>>, <<Msg(OldText)>>}}

\* The users table survives a restart: the user may have a row already
InitSession ==
    /\ fsm_state = [u \in Users |-> "none"]
    /\ fsm_data = [u \in Users |-> EmptyData]
    /\ users \in {[u \in Users |-> IF u = ScriptUser THEN l ELSE "absent"] :
                     l \in {"absent", "uz"}}
    /\ sell_leads = <<>>
    /\ tasks = [s \in Slots |-> Idle]
    /\ notified = {}
    /\ response = "none"
    /\ faults = <<>>
    /\ used = [events |-> 0, odd |-> 0, overlaps |-> 0, requests |-> 0]
    /\ WebInit
    /\ script \in SessionScripts
    /\ pos = 0
    /\ call = NoCall
    /\ result = "none"

\* The next update of the script
SessionEvent ==
    /\ pos < Len(script)
    /\ AllReturned
    /\ FeedUpdate(ScriptUser, script[pos + 1])
    /\ pos' = pos + 1
    /\ UNCHANGED <<fsm_state, fsm_data, users, sell_leads, notified, faults,
                   used, script, call, result, web>>

NextSession ==
    \/ SessionEvent
    \/ \E s \in Slots :
          \/ GetUserLangSelect(s)
          \/ GetUserLangInsert(s)
          \/ CbSell(s)
          \/ SellAnswer(s)
          \/ SellPhoneCheck(s)
          \/ SellPhoneInsert(s)
          \/ Answer(s)
          \/ Notify(s)

SpecSession == InitSession /\ [][NextSession]_vars

----------------------------------------------------------------------------
(* One user whose updates arrive while handlers of earlier ones are still  *)
(* in flight, as often as the slots allow                                  *)

\* The user taps menu:sell or sends the plain answer
RaceUpdates ==
    {[kind |-> "callback", data |-> "menu:sell"],
     [kind |-> "message", text |-> Plain(ScriptUser)]}

RaceDeliver(upd) ==
    /\ used.events < MaxRaceEvents
    /\ SomeSlotFree
    /\ FeedUpdate(ScriptUser, upd)
    /\ Use(ScriptUser, upd, FALSE)
    /\ UNCHANGED <<fsm_state, fsm_data, users, sell_leads, notified, faults,
                   script, pos, call, result, web>>

NextRace ==
    \/ \E upd \in RaceUpdates : RaceDeliver(upd)
    \/ \E s \in Slots :
          \/ GetUserLangSelect(s)
          \/ GetUserLangInsert(s)
          \/ CbSell(s)
          \/ SellAnswer(s)
          \/ Answer(s)

SpecRace == Init /\ [][NextRace]_vars

----------------------------------------------------------------------------
(* The localization table and the two pure functions, each evaluated once *)

\* I18N["ru"]: the text of a key is written "ru:<key>"
I18N_ru ==
    [choose_lang |-> "ru:choose_lang", menu_title |-> "ru:menu_title",
     menu_catalog |-> "ru:menu_catalog",
     menu_managers |-> "ru:menu_managers", menu_sell |-> "ru:menu_sell",
     menu_site |-> "ru:menu_site", back |-> "ru:back",
     catalog_choose_brand |-> "ru:catalog_choose_brand",
     catalog_empty |-> "ru:catalog_empty", brand_empty |-> "ru:brand_empty",
     car_contact |-> "ru:car_contact",
     managers_title |-> "ru:managers_title",
     managers_empty |-> "ru:managers_empty", sell_intro |-> "ru:sell_intro",
     sell_q_brand |-> "ru:sell_q_brand", sell_q_model |-> "ru:sell_q_model",
     sell_q_year |-> "ru:sell_q_year", sell_q_color |-> "ru:sell_q_color",
     sell_q_price |-> "ru:sell_q_price",
     sell_q_condition |-> "ru:sell_q_condition",
     sell_q_name |-> "ru:sell_q_name", sell_q_phone |-> "ru:sell_q_phone",
     sell_done |-> "ru:sell_done", invalid_phone |-> "ru:invalid_phone",
     open_site |-> "ru:open_site", price |-> "ru:price", year |-> "ru:year",
     no_desc |-> "ru:no_desc"]

\* I18N["uz"]: the text of a key is written "uz:<key>"
I18N_uz ==
    [choose_lang |-> "uz:choose_lang", menu_title |-> "uz:menu_title",
     menu_catalog |-> "uz:menu_catalog",
     menu_managers |-> "uz:menu_managers", menu_sell |-> "uz:menu_sell",
     menu_site |-> "uz:menu_site", back |-> "uz:back",
     catalog_choose_brand |-> "uz:catalog_choose_brand",
     catalog_empty |-> "uz:catalog_empty", brand_empty |-> "uz:brand_empty",
     car_contact |-> "uz:car_contact",
     managers_title |-> "uz:managers_title",
     managers_empty |-> "uz:managers_empty", sell_intro |-> "uz:sell_intro",
     sell_q_brand |-> "uz:sell_q_brand", sell_q_model |-> "uz:sell_q_model",
     sell_q_year |-> "uz:sell_q_year", sell_q_color |-> "uz:sell_q_color",
     sell_q_price |-> "uz:sell_q_price",
     sell_q_condition |-> "uz:sell_q_condition",
     sell_q_name |-> "uz:sell_q_name", sell_q_phone |-> "uz:sell_q_phone",
     sell_done |-> "uz:sell_done", invalid_phone |-> "uz:invalid_phone",
     open_site |-> "uz:open_site", price |-> "uz:price", year |-> "uz:year",
     no_desc |-> "uz:no_desc"]

I18N == [ru |-> I18N_ru, uz |-> I18N_uz]

\* T with I18N[lang] looked up as given: a language without a table is a
\* KeyError
TKeepsLang(lang, key) ==
    IF lang \notin DOMAIN I18N THEN "KeyError"
    ELSE IF key \in DOMAIN I18N[lang] THEN I18N[lang][key] ELSE key

\* t(lang, key)
T(lang, key) ==
    LET l == IF lang = "uz" THEN "uz" ELSE "ru"
    IN  IF key \in DOMAIN I18N[l] THEN I18N[l][key] ELSE key

PhoneAlphabet == {"+", "1", " ", "\t", "\n", "-", "(", ")", "a"}
PhoneTail == {"1", "\t"}

\* The replies the phone check is evaluated on
PhoneInputs ==
    {a \o b : a \in UNION {[1..k -> PhoneAlphabet] : k \in 0..MaxHead},
              b \in UNION {[1..m -> PhoneTail] : m \in 0..MaxTail}} \ {<<>>}

\* The languages and keys t is evaluated on
LangInputs == {"ru", "uz", "en", "UZ", ""}
KeyInputs == DOMAIN I18N_ru \cup DOMAIN I18N_uz \cup {"sell_q_vin", "missing", ""}

InitPure ==
    /\ fsm_state = [u \in Users |-> "none"]
    /\ fsm_data = [u \in Users |-> EmptyData]
    /\ users = [u \in Users |-> "absent"]
    /\ sell_leads = <<>>
    /\ tasks = [s \in Slots |-> Idle]
    /\ notified = {}
    /\ response = "none"
    /\ faults = <<>>
    /\ used = [events |-> 0, odd |-> 0, overlaps |-> 0, requests |-> 0]
    /\ WebInit
    /\ script = <<>>
    /\ pos = 0
    /\ call \in [f : {"t"}, lang : LangInputs, key : KeyInputs]
                \cup [f : {"phone"}, text : PhoneInputs]
    /\ result = "none"

\* The call t(call.lang, call.key) returns
CallT ==
    /\ call.f = "t" /\ result = "none"
    /\ result' = T(call.lang, call.key)
    /\ UNCHANGED <<fsm_state, fsm_data, users, sell_leads, tasks, notified,
                   response, faults, used, script, pos, call, web>>

\* sell_phone: phone = message.text.strip(), then PHONE_RE.match(phone)
CallPhoneCheck ==
    /\ call.f = "phone" /\ result = "none"
    /\ result' = IF PhoneMatch(Strip(call.text)) THEN "accepted" ELSE "rejected"
    /\ UNCHANGED <<fsm_state, fsm_data, users, sell_leads, tasks, notified,
                   response, faults, used, script, pos, call, web>>

NextPure == CallT \/ CallPhoneCheck

SpecPure == InitPure /\ [][NextPure]_vars

----------------------------------------------------------------------------
(* The admin panel: one request at a time, from its arrival to its response *)

\* SETTINGS.admin_password, a configured value that is not empty
AdminPassword == "secret"

\* The passwords that are tried at the login
Passwords == {AdminPassword, "secret ", "guess"}

\* What the handlers of the bot own, and what the scripted runs own
bot == <<fsm_state, fsm_data, users, sell_leads, tasks, notified, response>>
runs == <<script, pos, call, result>>

\* The lifetime of an admin cookie, 30 * 24 * 3600 seconds, in days
CookieLife == 30

\* The days that pass in one step of the clock
TickDays == 15

\* _make_admin_cookie: serializer.dumps({"ts": int(time.time())}).  A cookie
\* is written as its kind and its "ts": "signed" when serializer.loads
\* accepts its signature, "forged" when it does not, "none" when the
\* request has no admin cookie.
MakeAdminCookie == [kind |-> "signed", ts |-> now]

\* _is_admin_cookie_valid
IsAdminCookieValid(cookie) ==
    IF cookie.kind = "none" THEN FALSE
    ELSE IF cookie.kind # "signed" THEN FALSE
    ELSE now - cookie.ts < CookieLife

\* The cookies a request can carry: none, one whose signature was not made
\* with SETTINGS.secret_key, or one the application has issued
CookieChoices ==
    {[kind |-> "none", ts |-> 0], [kind |-> "forged", ts |-> now]}
    \cup {[kind |-> "signed", ts |-> x] : x \in cookies}

\* The files uploaded with one car: f1, f2, ... in upload order
FileNames == <<"f1", "f2", "f3", "f4", "f5", "f6", "f7">>
PhotoLists == {SubSeq(FileNames, 1, n) : n \in 0..MaxUploads}

\* The requests to the admin panel.  pc is "auth" where the route depends
\* on admin_required.  car_id and rows are filled in by admin_cars_post.
AdminRequests ==
    [route : {"login"}, pc : {"body"}, password : Passwords]
    \cup [route : {"brands_post"}, pc : {"auth"}, cookie : CookieChoices,
          name_ru : {<<" ", "b">>}, name_uz : {<<"b", " ">>}]
    \cup [route : {"cars_post"}, pc : {"auth"}, cookie : CookieChoices,
          brand_id : {1}, active : {"on", ""}, photos : PhotoLists,
          car_id : {0}, rows : {<<>>}]
    \cup [route : {"leads"}, pc : {"auth"}, cookie : CookieChoices]

\* A request arrives while no other is being handled
AdminRequest(r) ==
    /\ req = NoReq
    /\ used.requests < MaxRequests
    /\ req' = r
    /\ used' = [used EXCEPT !.requests = @ + 1]
    /\ UNCHANGED <<bot, runs, faults, brands, cars, car_photos, uploads,
                   cookies, now, http>>

\* AdminRequired with a check that the request has an admin cookie at all
AdminRequiredChecksPresence ==
    /\ req.pc = "auth"
    /\ IF req.cookie.kind # "none"
       THEN req' = [req EXCEPT !.pc = "body"] /\ UNCHANGED http
       ELSE req' = NoReq /\ http' = [status |-> 401]
    /\ UNCHANGED <<bot, runs, faults, used, brands, cars, car_photos, uploads,
                   cookies, now>>

\* admin_required: HTTPException(401) unless the cookie is valid
AdminRequired ==
    /\ req.pc = "auth"
    /\ IF IsAdminCookieValid(req.cookie)
       THEN req' = [req EXCEPT !.pc = "body"] /\ UNCHANGED http
       ELSE req' = NoReq /\ http' = [status |-> 401]
    /\ UNCHANGED <<bot, runs, faults, used, brands, cars, car_photos, uploads,
                   cookies, now>>

\* admin_login_post: the login page with an error unless the password is
\* SETTINGS.admin_password, else a redirect that sets a new admin cookie
AdminLoginPost ==
    /\ req.route = "login" /\ req.pc = "body"
    /\ IF req.password # AdminPassword
       THEN /\ http' = [status |-> 200, page |-> "admin_login"]
            /\ UNCHANGED cookies
       ELSE /\ http' = [status |-> 302, set_cookie |-> MakeAdminCookie]
            /\ cookies' = cookies \cup {MakeAdminCookie.ts}
    /\ req' = NoReq
    /\ UNCHANGED <<bot, runs, faults, used, brands, cars, car_photos, uploads,
                   now>>

\* admin_brands_post: INSERT INTO brands, commit, redirect
AdminBrandsPost ==
    /\ req.route = "brands_post" /\ req.pc = "body"
    /\ brands' = Append(brands, [name_ru |-> Strip(req.name_ru),
                                 name_uz |-> Strip(req.name_uz)])
    /\ http' = [status |-> 302]
    /\ req' = NoReq
    /\ UNCHANGED <<bot, runs, faults, used, cars, car_photos, uploads,
                   cookies, now>>

\* admin_cars_post: photos = (photos or [])[:5]
Photos(r) == SubSeq(r.photos, 1, IF Len(r.photos) < 5 THEN Len(r.photos) ELSE 5)

\* The row admin_cars_post inserts into cars; the columns that are only
\* displayed are left out
CarRow(r) == [brand_id |-> r.brand_id, active |-> IF r.active # "" THEN 1 ELSE 0]

\* admin_cars_post: INSERT INTO cars and SELECT last_insert_rowid(), in a
\* transaction that is not committed yet
AdminCarsInsert ==
    /\ req.route = "cars_post" /\ req.pc = "body"
    /\ req' = [req EXCEPT !.pc = "photos", !.car_id = Len(cars) + 1]
    /\ UNCHANGED <<bot, runs, faults, used, brands, cars, car_photos, uploads,
                   cookies, now, http>>

\* The name _save_upload gives the next file: it is new, and it ends with
\* the name the file was uploaded with
SavedName(f) == [id |-> Len(uploads) + 1, name |-> f]

\* One more photo is left for the loop of admin_cars_post
PhotoLeft == req.pc = "photos" /\ Len(req.rows) < Len(Photos(req))

\* One turn of the loop of admin_cars_post: _save_upload writes the file,
\* then INSERT INTO car_photos with sort = i, in the same transaction
SaveUpload ==
    LET i == Len(req.rows)
        saved == SavedName(Photos(req)[i + 1])
    IN  /\ PhotoLeft
        /\ uploads' = Append(uploads, saved)
        /\ req' = [req EXCEPT !.rows = Append(@, [car_id |-> req.car_id,
                                                  file_path |-> saved,
                                                  sort |-> i])]
        /\ UNCHANGED <<bot, runs, faults, used, brands, cars, car_photos,
                       cookies, now, http>>

\* SaveUploadFails with a commit in the finally clause
SaveUploadFailsCommits ==
    LET saved == SavedName(Photos(req)[Len(req.rows) + 1])
    IN  /\ PhotoLeft
        /\ Len(faults) < MaxFaults
        /\ faults' = Append(faults, "upload")
        /\ uploads' \in {uploads, Append(uploads, saved)}
        /\ cars' = Append(cars, CarRow(req))
        /\ car_photos' = car_photos \o req.rows
        /\ req' = NoReq
        /\ http' = [status |-> 500]
        /\ UNCHANGED <<bot, runs, used, brands, cookies, now>>

\* _save_upload raised, in file.read() or in write_bytes, which may have
\* created the file: the finally clause closes the connection without a
\* commit, the transaction is rolled back and the request fails
SaveUploadFails ==
    LET saved == SavedName(Photos(req)[Len(req.rows) + 1])
    IN  /\ PhotoLeft
        /\ Len(faults) < MaxFaults
        /\ faults' = Append(faults, "upload")
        /\ uploads' \in {uploads, Append(uploads, saved)}
        /\ req' = NoReq
        /\ http' = [status |-> 500]
        /\ UNCHANGED <<bot, runs, used, brands, cars, car_photos, cookies, now>>

\* admin_cars_post: the loop is over, commit, redirect
AdminCarsCommit ==
    /\ req.pc = "photos" /\ Len(req.rows) = Len(Photos(req))
    /\ cars' = Append(cars, CarRow(req))
    /\ car_photos' = car_photos \o req.rows
    /\ http' = [status |-> 302]
    /\ req' = NoReq
    /\ UNCHANGED <<bot, runs, faults, used, brands, uploads, cookies, now>>

\* admin_leads: SELECT the leads and render them
AdminLeads ==
    /\ req.route = "leads" /\ req.pc = "body"
    /\ http' = [status |-> 200, leads |-> sell_leads]
    /\ req' = NoReq
    /\ UNCHANGED <<bot, runs, faults, used, brands, cars, car_photos, uploads,
                   cookies, now>>

\* Time passes between two requests
Tick ==
    /\ req = NoReq
    /\ now + TickDays <= MaxDays
    /\ now' = now + TickDays
    /\ UNCHANGED <<bot, runs, faults, used, brands, cars, car_photos, uploads,
                   cookies, req, http>>

\* A lead that a completed flow has stored
StoredLead ==
    LeadRow(ScriptUser, "ru",
            [k \in Preceding("phone") |-> <<"a">>], GoodPhone(ScriptUser))

\* The state after startup with a lead in the store from an earlier run
InitAdmin ==
    /\ fsm_state = [u \in Users |-> "none"]
    /\ fsm_data = [u \in Users |-> EmptyData]
    /\ users = [u \in Users |-> IF u = ScriptUser THEN "ru" ELSE "absent"]
    /\ sell_leads = <<StoredLead>>
    /\ tasks = [s \in Slots |-> Idle]
    /\ notified = {}
    /\ response = "none"
    /\ faults = <<>>
    /\ used = [events |-> 0, odd |-> 0, overlaps |-> 0, requests |-> 0]
    /\ WebInit
    /\ script = <<>>
    /\ pos = 0
    /\ call = NoCall
    /\ result = "none"

NextAdmin ==
    \/ \E r \in AdminRequests : AdminRequest(r)
    \/ AdminRequired
    \/ AdminLoginPost
    \/ AdminBrandsPost
    \/ AdminCarsInsert
    \/ SaveUpload
    \/ SaveUploadFails
    \/ AdminCarsCommit
    \/ AdminLeads
    \/ Tick

SpecAdmin == InitAdmin /\ [][NextAdmin]_vars

----------------------------------------------------------------------------
(* One user who goes through the flow and, somewhere on the way, taps a    *)
(* button of the catalog, of the managers or of the languages or sends     *)
(* /start; each update is delivered after the handler of the previous one  *)
(* returned                                                                *)

Cb(d) == [kind |-> "callback", data |-> d]
CbArg(d, a) == [kind |-> "callback", data |-> d, arg |-> a]

\* What follows "lang:" in the data of a language callback
LangArgs == {<<"r", "u">>, <<"u", "z">>, <<"e", "n">>, <<" ", "u", "z">>}

BrowseCallbacks ==
    {Cb("menu:catalog"), CbArg("brand:", <<"1">>), CbArg("brand:", <<"x">>),
     CbArg("car:", <<"1">>), CbArg("car_contact:", <<"1">>),
     Cb("menu:managers"), Cb("menu:lang")}
    \cup {CbArg("lang:", a) : a \in LangArgs}

StartCommands ==
    {Msg(<<"/", "s", "t", "a", "r", "t">>),
     Msg(<<"/", "s", "t", "a", "r", "t", " ", "x">>)}

\* The seven answers and the phone of the first pass and of the second
BrowsePass ==
    <<Msg(<<" ", "a">>), Msg(<<"b", " ">>), Msg(<<"c">>), Msg(<<"d">>),
      Msg(<<"e">>), Msg(<<"f">>), Msg(<<"g">>), Msg(GoodPhone(ScriptUser))>>
SecondPass ==
    <<Msg(<<"g">>), Msg(<<"f">>), Msg(<<"e">>), Msg(<<"d">>),
      Msg(<<"c">>), Msg(<<"b", " ">>), Msg(<<" ", "a">>), Msg(GoodPhone("u2"))>>

\* What is sent after the completion: nothing, the phone message again,
\* another text, or the trigger and a second pass
BrowseTails ==
    {<<>>, <<Msg(GoodPhone(ScriptUser))>>, <<Msg(OldText)>>,
     <<Trigger>> \o SecondPass}

\* The trigger, the pass with one tap or /start after j of its replies,
\* and what is sent after the completion
BrowseScripts ==
    {<<Trigger>> \o InsertAt(BrowsePass, j, e) \o tail :
        j \in 0..Len(BrowsePass),
        e \in BrowseCallbacks \cup StartCommands,
        tail \in BrowseTails}

\* The store after an admin has logged in and created a brand and an active
\* car of that brand with one photo
StockedStore ==
    /\ brands = <<[name_ru |-> <<"b">>, name_uz |-> <<"b">>]>>
    /\ cars = <<[brand_id |-> 1, active |-> 1]>>
    /\ car_photos = <<[car_id |-> 1, file_path |-> [id |-> 1, name |-> "f1"],
                       sort |-> 0]>>
    /\ uploads = <<[id |-> 1, name |-> "f1"]>>
    /\ cookies = {0}
    /\ now = 0
    /\ req = NoReq
    /\ http = [status |-> 302]

\* The tables survive a restart: the user may have a row already, and the
\* catalog may have a car
InitBrowse ==
    /\ fsm_state = [u \in Users |-> "none"]
    /\ fsm_data = [u \in Users |-> EmptyData]
    /\ users \in {[u \in Users |-> IF u = ScriptUser THEN l ELSE "absent"] :
                     l \in {"absent", "uz"}}
    /\ sell_leads = <<>>
    /\ tasks = [s \in Slots |-> Idle]
    /\ notified = {}
    /\ response = "none"
    /\ faults = <<>>
    /\ used = [events |-> 0, odd |-> 0, overlaps |-> 0, requests |-> 0]
    /\ (WebInit \/ StockedStore)
    /\ script \in BrowseScripts
    /\ pos = 0
    /\ call = NoCall
    /\ result = "none"

NextBrowse ==
    \/ SessionEvent
    \/ \E s \in Slots :
          \/ GetUserLangSelect(s)
          \/ GetUserLangInsert(s)
          \/ SetUserLang(s)
          \/ CbCatalog(s)
          \/ CbBrand(s)
          \/ CbCar(s)
          \/ SendPhoto(s)
          \/ SendPhotoFails(s)
          \/ CbManagers(s)
          \/ CbSell(s)
          \/ SellAnswer(s)
          \/ SellPhoneCheck(s)
          \/ SellPhoneInsert(s)
          \/ Answer(s)
          \/ Notify(s)

SpecBrowse == InitBrowse /\ [][NextBrowse]_vars

----------------------------------------------------------------------------
(* The public site and the catalog of the bot, after and between the       *)
(* creations of an admin who has logged in                                 *)

\* index: SELECT ... FROM cars c JOIN brands b ON b.id=c.brand_id ... WHERE
\* c.active=1, with AND c.brand_id=? when brand_id is given and not 0;
\* b = 0 stands for no brand_id
IndexCars(b) ==
    {c \in DOMAIN cars :
        /\ cars[c].active = 1
        /\ cars[c].brand_id \in DOMAIN brands
        /\ (b # 0 => cars[c].brand_id = b)}

\* index: the page lists the cars selected
Index ==
    /\ req.route = "index" /\ req.pc = "body"
    /\ http' = [status |-> 200, page |-> "index", cars |-> IndexCars(req.brand_id)]
    /\ req' = NoReq
    /\ UNCHANGED <<bot, runs, faults, used, brands, cars, car_photos, uploads,
                   cookies, now>>

\* car_page: HTTPException(404) unless the car is selected, else its page
CarPage ==
    /\ req.route = "car_page" /\ req.pc = "body"
    /\ IF CarFound(req.car_id)
       THEN http' = [status |-> 200, page |-> "car", cars |-> {req.car_id}]
       ELSE http' = [status |-> 404]
    /\ req' = NoReq
    /\ UNCHANGED <<bot, runs, faults, used, brands, cars, car_photos, uploads,
                   cookies, now>>

\* The cookie of the admin who logged in on day 0
AdminCookie == [kind |-> "signed", ts |-> 0]

\* The requests of the admin, who creates brands and cars, active or not,
\* of a brand that exists or not, with a photo or without, and the
\* requests of the public
CatalogRequests ==
    [route : {"brands_post"}, pc : {"auth"}, cookie : {AdminCookie},
     name_ru : {<<" ", "b">>}, name_uz : {<<"b", " ">>}]
    \cup [route : {"cars_post"}, pc : {"auth"}, cookie : {AdminCookie},
          brand_id : {1, 2}, active : {"on", ""},
          photos : {<<>>, <<"f1">>}, car_id : {0}, rows : {<<>>}]
    \cup [route : {"index"}, pc : {"body"}, brand_id : {0, 1, 2}]
    \cup [route : {"car_page"}, pc : {"body"}, car_id : {1, 2}]

\* The buttons of the catalog a user taps
CatalogTaps ==
    {CbArg(d, a) : d \in {"brand:", "car:"}, a \in {<<"1">>, <<"2">>}}

\* The user taps a button of the catalog, after the handler of the tap
\* before has returned and at any point of a request to the web application
CatalogTap(upd) ==
    /\ used.events < MaxTaps
    /\ AllReturned
    /\ FeedUpdate(ScriptUser, upd)
    /\ used' = [used EXCEPT !.events = @ + 1]
    /\ UNCHANGED <<fsm_state, fsm_data, users, sell_leads, notified, faults,
                   script, pos, call, result, web>>

\* The state after startup with the row of a user, one brand and the
\* cookie of an admin from an earlier run
InitCatalog ==
    /\ fsm_state = [u \in Users |-> "none"]
    /\ fsm_data = [u \in Users |-> EmptyData]
    /\ users = [u \in Users |-> IF u = ScriptUser THEN "ru" ELSE "absent"]
    /\ sell_leads = <<>>
    /\ tasks = [s \in Slots |-> Idle]
    /\ notified = {}
    /\ response = "none"
    /\ faults = <<>>
    /\ used = [events |-> 0, odd |-> 0, overlaps |-> 0, requests |-> 0]
    /\ brands = <<[name_ru |-> <<"b">>, name_uz |-> <<"b">>]>>
    /\ cars = <<>>
    /\ car_photos = <<>>
    /\ uploads = <<>>
    /\ cookies = {0}
    /\ now = 0
    /\ req = NoReq
    /\ http = [status |-> 302]
    /\ script = <<>>
    /\ pos = 0
    /\ call = NoCall
    /\ result = "none"

NextCatalog ==
    \/ \E r \in CatalogRequests : AdminRequest(r)
    \/ AdminRequired
    \/ AdminBrandsPost
    \/ AdminCarsInsert
    \/ SaveUpload
    \/ AdminCarsCommit
    \/ Index
    \/ CarPage
    \/ \E upd \in CatalogTaps : CatalogTap(upd)
    \/ \E s \in Slots :
          \/ GetUserLangSelect(s)
          \/ CbBrand(s)
          \/ CbCar(s)
          \/ SendPhoto(s)
          \/ SendPhotoFails(s)
          \/ Answer(s)

SpecCatalog == InitCatalog /\ [][NextCatalog]_vars

----------------------------------------------------------------------------
(* Properties *)

\* The handler in slot s takes a step
Stepping(s) == InFlight(s) /\ tasks'[s] # tasks[s]

\* The handler in slot s returns or raises in this step
Ending(s) == InFlight(s) /\ tasks'[s] = Idle

LeadFields ==
    {"full_name", "phone", "brand_text", "model_text", "year", "color",
     "price_wanted", "condition"}

\* The state after a step of the linear order, "none" being Idle
Succ(st) ==
    IF st = "none" THEN "brand"
    ELSE IF st = "phone" THEN "none"
    ELSE NextStep(st)

(* C1 *)

ScriptDone == pos = Len(script) + 1 /\ AllReturned

\* When the script is over the session is Idle and empty, and the one lead
\* holds the trimmed replies in order
C1_Final ==
    ScriptDone =>
        /\ fsm_state[ScriptUser] = "none"
        /\ fsm_data[ScriptUser] = EmptyData
        /\ Len(sell_leads) = 1
        /\ sell_leads[1].brand_text = Strip(script[1])
        /\ sell_leads[1].model_text = Strip(script[2])
        /\ sell_leads[1].year = Strip(script[3])
        /\ sell_leads[1].color = Strip(script[4])
        /\ sell_leads[1].price_wanted = Strip(script[5])
        /\ sell_leads[1].condition = Strip(script[6])
        /\ sell_leads[1].full_name = Strip(script[7])
        /\ sell_leads[1].phone = Strip(script[Len(script)])

\* After the trigger and k answers the session awaits step k+1; it awaits
\* the phone until the valid phone is handled; no lead exists before that
C1_Progress ==
    (AllReturned /\ pos \in 1..Len(script)) =>
        /\ fsm_state[ScriptUser] = (IF pos <= 8 THEN Steps[pos] ELSE "phone")
        /\ DOMAIN fsm_data[ScriptUser] =
               {FieldOf(Steps[i]) : i \in 1..((IF pos <= 8 THEN pos ELSE 8) - 1)}
        /\ sell_leads = <<>>

\* The step of the session changes only to the next step of the order
C1_Order ==
    \A u \in Users :
        fsm_state'[u] # fsm_state[u] => fsm_state'[u] = Succ(fsm_state[u])

\* C1: after the start trigger, seven replies given in step order, any
\* number of rejected phones and a phone-shaped reply, the session has gone
\* through brand, model, year, color, price, condition, name, phone once
\* each, is Idle with no collected field, and exactly one lead is stored
\* whose fields are the trimmed replies in that order.
C1_ScriptedFlowMakesOneLead ==
    /\ [](C1_Final /\ C1_Progress /\ Len(sell_leads) <= 1)
    /\ [][C1_Order]_vars

C1_Witness ==
    /\ ScriptDone
    /\ Len(script) = 10
    /\ Len(sell_leads) = 1
    /\ sell_leads[1].brand_text = <<"a">>
    /\ sell_leads[1].model_text = <<"7">>
    /\ sell_leads[1].full_name = <<>>
    /\ sell_leads[1].phone = <<"8", "(", "9", "0", ")", "1", "-", "2", "3">>

(* C2 *)

\* C2: in a run without overlapping handlers, when the handler of the
\* cancel trigger menu:home returns, the session of its user is Idle and
\* has no collected field.
C2_CancelResetsSession ==
    [][\A s \in Slots :
          (used.overlaps = 0 /\ tasks[s].h = "cb_home" /\ Ending(s) /\ response' = "ok")
          => (fsm_state'[tasks[s].u] = "none" /\ fsm_data'[tasks[s].u] = EmptyData)]_vars

(* C3 *)

\* C3: no step of a handler of sell_brand .. sell_name that was given a
\* reply which is empty after trimming changes the step or the collected
\* fields of any session.
C3_BlankReplyIsRejected ==
    [][\A s \in Slots :
          (tasks[s].h \in StepSet \ {"phone"} /\ Strip(tasks[s].text) = <<>> /\ Stepping(s))
          => (fsm_state' = fsm_state /\ fsm_data' = fsm_data)]_vars

(* C4 *)

\* The handler in slot s is sell_phone with a reply the phone check rejects
BadPhoneTask(s) == tasks[s].h = "phone" /\ ~PhoneMatch(Strip(tasks[s].text))

C5_FailedSaveKeepsSession ==
    [][\A s \in Slots :
          (used.overlaps = 0 /\ tasks[s].pc = "insert" /\ Stepping(s) /\ sell_leads' = sell_leads)
          => (fsm_state'[tasks[s].u] = "phone" /\ fsm_data'[tasks[s].u] = tasks[s].data)]_vars

(* C6 *)

\* C6: replies of one user are handled one after the other: when the
\* handler of a step stores its answer, or sell_phone checks the phone, the
\* session is at the step the handler was picked for.
C6_RepliesHandledInOrder ==
    [][\A s \in Slots :
          (tasks[s].h \in StepSet /\ tasks[s].pc = "body" /\ Stepping(s))
          => fsm_state[tasks[s].u] = tasks[s].h]_vars

(* C7 *)

\* What a lead or a session of user u may hold: the user's own trimmed
\* texts, or the empty default of a field that was never stored
OwnValues(u) == {Strip(x) : x \in {Plain(u), Blank, GoodPhone(u)}} \cup {<<>>}

\* Every collected field and every field of a lead is a value of its user
C7_OwnValuesOnly ==
    /\ \A u \in Users : \A k \in DOMAIN fsm_data[u] : fsm_data[u][k] \in OwnValues(u)
    /\ \A i \in DOMAIN sell_leads : \A f \in LeadFields :
           sell_leads[i][f] \in OwnValues(sell_leads[i].by)

\* A session changes only in a step of a handler of an update of its user
C7_OwnEventsOnly ==
    \A u \in Users :
        (fsm_state'[u] # fsm_state[u] \/ fsm_data'[u] # fsm_data[u])
        => \E s \in Slots : Stepping(s) /\ tasks[s].u = u

\* C7: the step and the collected fields of a user's session change only
\* in a step of a handler started by an update of that user (so never by
\* another user's event and never by the passing of time), and every
\* collected field and every field of a lead is a trimmed text of the
\* user whose session or reply it comes from.
C7_SessionsAreIsolated == [](C7_OwnValuesOnly) /\ [][C7_OwnEventsOnly]_vars

C7_Witness ==
    /\ fsm_state["u1"] = "color"
    /\ fsm_state["u2"] = "year"
    /\ fsm_data["u1"]["brand_text"] = <<"a">>
    /\ fsm_data["u2"]["brand_text"] = <<"b">>
    /\ \E s \in Slots : tasks[s].u = "u2" /\ tasks[s].pc = "answer"
    /\ \E s \in Slots : tasks[s].u = "u1" /\ tasks[s].pc = "body"

(* C8 *)

\* C8: a turn of the loop of notify_admins, whether the message is
\* delivered or bot.send_message raises, leaves the leads and every session
\* as they are and goes on to the next staff identity or, after the last,
\* returns without an exception; the lead of the handler is stored by then.
C8_NotificationNeverTouchesLead ==
    /\ [](\A s \in Slots : tasks[s].pc = "notify" =>
             \E i \in DOMAIN sell_leads :
                 sell_leads[i] = LeadRow(tasks[s].u, tasks[s].lang, tasks[s].data,
                                         tasks[s].phone))
    /\ [][\A s \in Slots :
             (tasks[s].pc = "notify" /\ Stepping(s)) =>
                 /\ sell_leads' = sell_leads
                 /\ fsm_state' = fsm_state
                 /\ fsm_data' = fsm_data
                 /\ IF tasks[s].i < Len(Admins)
                    THEN tasks'[s] = [tasks[s] EXCEPT !.i = tasks[s].i + 1]
                    ELSE tasks'[s] = Idle /\ response' = "ok"]_vars

C8_Witness ==
    /\ faults = <<"notify">>
    /\ AllReturned
    /\ response = "ok"
    /\ used.events = 9
    /\ Len(sell_leads) = 1
    /\ Cardinality(notified) = 1
    /\ \A u \in Users : fsm_state[u] = "none"

(* C9 *)

\* C9: every field of every stored lead is a non-empty text.
C9_LeadFieldsNonEmpty ==
    \A i \in DOMAIN sell_leads : \A f \in LeadFields : sell_leads[i][f] # <<>>

(* C10 *)

C11_FailedSaveIsToldToUser ==
    [][\A s \in Slots :
          (tasks[s].pc = "insert" /\ Stepping(s) /\ sell_leads' = sell_leads)
          => (tasks'[s].pc = "answer" /\ tasks'[s].say # "sell_done")]_vars

(* C18 *)

\* C18: in a run without overlapping handlers, while a sell_phone that
\* passed the phone check has not stored its lead yet, the session of its
\* user is not cleared: it is still at phone.
C18_LeadStoredBeforeSessionCleared ==
    \A s \in Slots :
        (used.overlaps = 0 /\ tasks[s].h = "phone" /\ tasks[s].pc = "insert")
        => fsm_state[tasks[s].u] = "phone"

(* C16 *)

\* The rule of the phone step: an optional leading "+", then one digit,
\* then at least 7 more characters, each a digit, a space, a hyphen or a
\* parenthesis
PhoneRule(s) ==
    LET body == IF s # <<>> /\ Head(s) = "+" THEN Tail(s) ELSE s
    IN  /\ Len(body) >= 8
        /\ body[1] \in Digits
        /\ \A i \in 2..Len(body) : body[i] \in Digits \cup {" ", "-", "(", ")"}

\* C16: the phone check accepts a reply exactly when the trimmed reply
\* satisfies the rule of the phone step.
C16_PhoneCheckIsTheRule ==
    (call.f = "phone" /\ result # "none")
    => (result = "accepted" <=> PhoneRule(Strip(call.text)))

(* C17 *)

\* The keys the handlers of the sell flow look up
SellKeys == {PromptOf(st) : st \in StepSet} \cup {"sell_intro", "sell_done", "invalid_phone"}

\* C17: t returns the text of the key in the table of "uz" when the
\* language is "uz" and in the table of "ru" for every other language, and
\* the key itself when that table has no such key; every key the sell flow
\* looks up is in both tables.
C17_LookupIsTotal ==
    /\ SellKeys \subseteq DOMAIN I18N["ru"] \cap DOMAIN I18N["uz"]
    /\ (call.f = "t" /\ result # "none") =>
           /\ (call.lang = "uz" /\ call.key \in DOMAIN I18N["uz"])
                 => result = I18N["uz"][call.key]
           /\ (call.lang = "uz" /\ call.key \notin DOMAIN I18N["uz"])
                 => result = call.key
           /\ (call.lang # "uz" /\ call.key \in DOMAIN I18N["ru"])
                 => result = I18N["ru"][call.key]
           /\ (call.lang # "uz" /\ call.key \notin DOMAIN I18N["ru"])
                 => result = call.key

C17_Witness ==
    /\ call.f = "t" /\ call.lang = "en" /\ call.key = "sell_q_phone"
    /\ result = "ru:sell_q_phone"

(* C14 *)

\* C14: the collected fields of every session have only keys of steps that
\* precede the step the session is at.
C14_OnlyKeysOfStepsPassed ==
    \A u \in Users : DOMAIN fsm_data[u] \subseteq Preceding(fsm_state[u])

(* C15 *)

\* C15: every stored lead has the status "new", and a step either leaves
\* sell_leads as it is or appends one row with the status "new" after the
\* rows stored before, which stay as they are.
C15_LeadsAreAppendOnly ==
    /\ [](\A i \in DOMAIN sell_leads : sell_leads[i].status = "new")
    /\ [][\/ sell_leads' = sell_leads
          \/ /\ Len(sell_leads') = Len(sell_leads) + 1
             /\ SubSeq(sell_leads', 1, Len(sell_leads)) = sell_leads
             /\ sell_leads'[Len(sell_leads')].status = "new"]_vars

C15_Witness ==
    /\ Len(sell_leads) = 2
    /\ AllReturned

(* C19 *)

\* The values of a lead in the order of the notification payload, followed
\* by the reference to the admin leads view
LeadParts(row) ==
    <<row.full_name, row.phone, row.brand_text, row.model_text, row.year,
      row.color, row.price_wanted, row.condition, <<"/admin/leads">> >>

\* C19: every message notify_admins delivers carries, in the order name,
\* phone, brand, model, year, color, price, condition, the values of the
\* lead that the same sell_phone stored, followed by the admin leads
\* reference.
C19_NotificationCarriesTheLead ==
    /\ [](\A n \in notified : \E i \in DOMAIN sell_leads :
             n.text = LeadParts(sell_leads[i]))
    /\ [][\A s \in Slots :
             (tasks[s].pc = "notify" /\ Stepping(s)) =>
                 /\ \E i \in DOMAIN sell_leads :
                        sell_leads[i] = LeadRow(tasks[s].u, tasks[s].lang,
                                                tasks[s].data, tasks[s].phone)
                 /\ \A n \in notified' \ notified :
                        /\ n.to = Admins[tasks[s].i]
                        /\ n.text = LeadParts(LeadRow(tasks[s].u, tasks[s].lang,
                                                      tasks[s].data, tasks[s].phone))]_vars

C19_Witness ==
    /\ ScriptDone
    /\ Cardinality(notified) = Len(Admins)
    /\ Len(sell_leads) = 1
    /\ sell_leads[1].brand_text = <<"a">>
    /\ sell_leads[1].model_text = <<"7">>
    /\ sell_leads[1].year = <<>>
    /\ \A n \in notified : n.text[3] = <<"a">> /\ n.text[4] = <<"7">>

(* C12 *)

SessionDone == pos = Len(script) /\ AllReturned

\* The place of the last tap on menu:sell in a script
RestartAt(sc) ==
    CHOOSE i \in 1..Len(sc) :
        sc[i] = Trigger /\ \A j \in (i + 1)..Len(sc) : sc[j] # Trigger

\* The texts sent after the last tap on menu:sell
PassTexts(sc) ==
    SelectSeq(SubSeq(sc, RestartAt(sc) + 1, Len(sc)), LAMBDA e : e.text # <<>>)

\* Once the handler of a tap on menu:sell has returned, the session is at
\* brand and holds no field
C12_AfterTrigger ==
    (AllReturned /\ pos >= 1 /\ script[pos] = Trigger) =>
        /\ fsm_state[ScriptUser] = "brand"
        /\ fsm_data[ScriptUser] = EmptyData

\* From then on no answer given before the tap is in the session or in a lead
C12_NoOldAnswer ==
    (pos > RestartAt(script) \/ (pos = RestartAt(script) /\ AllReturned)) =>
        /\ \A k \in DOMAIN fsm_data[ScriptUser] : fsm_data[ScriptUser][k] # OldText
        /\ \A i \in DOMAIN sell_leads : \A f \in LeadFields : sell_leads[i][f] # OldText

\* The lead of the flow that was started again holds the answers given
\* after the tap
C12_Final ==
    SessionDone =>
        /\ Len(sell_leads) = 1
        /\ sell_leads[1].brand_text = Strip(PassTexts(script)[1].text)
        /\ sell_leads[1].model_text = Strip(PassTexts(script)[2].text)
        /\ sell_leads[1].year = Strip(PassTexts(script)[3].text)
        /\ sell_leads[1].color = Strip(PassTexts(script)[4].text)
        /\ sell_leads[1].price_wanted = Strip(PassTexts(script)[5].text)
        /\ sell_leads[1].condition = Strip(PassTexts(script)[6].text)
        /\ sell_leads[1].full_name = Strip(PassTexts(script)[7].text)
        /\ sell_leads[1].phone = Strip(GoodPhone(ScriptUser))

\* C12: a tap on menu:sell, from Idle and in the middle of a flow, leaves
\* the session at brand with no collected field; no answer given before
\* the tap stays in the session or gets into the lead of the flow that was
\* started again, whose lead holds the answers given after the tap.
C12_StartTriggerResetsSession == C12_AfterTrigger /\ C12_NoOldAnswer /\ C12_Final

C12_Witness ==
    /\ SessionDone
    /\ RestartAt(script) >= Len(Steps) + 1
    /\ script[RestartAt(script) - 1] = Msg(OldText)
    /\ Len(sell_leads) = 1
    /\ sell_leads[1].brand_text = <<"a">>
    /\ sell_leads[1].full_name = <<"g">>

(* C13 *)

\* C13: the delivery of a message without text, at whatever step, and of a
\* text while the session is Idle starts no handler, changes no session,
\* stores no lead, notifies nobody, and the webhook call ends without an
\* exception.
C13_OutOfSequenceIsIgnored ==
    [][(/\ pos' = pos + 1
        /\ script[pos + 1].kind = "message"
        /\ (script[pos + 1].text = <<>> \/ fsm_state[ScriptUser] = "none"))
       => (/\ tasks' = tasks
           /\ fsm_state' = fsm_state
           /\ fsm_data' = fsm_data
           /\ sell_leads' = sell_leads
           /\ notified' = notified
           /\ response' = "ok")]_vars

C13_Witness ==
    /\ AllReturned
    /\ pos >= 1
    /\ script[pos] = Media
    /\ response = "ok"
    /\ fsm_state[ScriptUser] = "year"
    /\ DOMAIN fsm_data[ScriptUser] = {"brand_text", "model_text"}
    /\ sell_leads = <<>>

(* C20 *)

\* C20: when a handler of sell_brand .. sell_name stores a reply that is
\* not empty after trimming, the session is at the step k of the handler;
\* the step puts the trimmed text under the field of k, keeps every other
\* field, moves the session to the successor of k and goes on to send the
\* prompt of the successor in the language the user has; sending it is
\* the last thing the handler does, and nothing is sent before.
C20_AcceptedReplyAdvancesOneStep ==
    [][\A s \in Slots :
          LET t == tasks[s]
              u == t.u
              k == fsm_state[u]
          IN  /\ (t.h \in StepSet \ {"phone"} /\ t.pc = "body"
                    /\ Strip(t.text) # <<>> /\ Stepping(s)) =>
                    /\ k = t.h
                    /\ DOMAIN fsm_data'[u] = DOMAIN fsm_data[u] \cup {FieldOf(k)}
                    /\ fsm_data'[u][FieldOf(k)] = Strip(t.text)
                    /\ \A f \in DOMAIN fsm_data[u] \ {FieldOf(k)} :
                           fsm_data'[u][f] = fsm_data[u][f]
                    /\ fsm_state'[u] = Succ(k)
                    /\ tasks'[s].pc = "answer"
                    /\ users[u] \in {"ru", "uz"}
                    /\ T(tasks'[s].lang, tasks'[s].say) = I18N[users[u]][PromptOf(Succ(k))]
              /\ (t.h \in StepSet \ {"phone"} /\ t.pc = "answer" /\ Stepping(s)) =>
                    /\ tasks'[s] = Idle
                    /\ response' = "ok"
                    /\ fsm_state' = fsm_state /\ fsm_data' = fsm_data
              /\ (t.h \in StepSet \ {"phone"} /\ t.pc \in {"lang", "lang_ins"}
                    /\ Stepping(s)) =>
                    /\ tasks'[s].pc \in {"lang_ins", "body"}
                    /\ fsm_state' = fsm_state /\ fsm_data' = fsm_data]_vars

C20_Witness ==
    /\ users[ScriptUser] = "uz"
    /\ pos > RestartAt(script)
    /\ fsm_state[ScriptUser] = "color"
    /\ fsm_data[ScriptUser] =
           [brand_text |-> <<"a">>, model_text |-> <<"b">>, year |-> <<"c">>]
    /\ \E s \in Slots :
           /\ tasks[s].h = "year" /\ tasks[s].pc = "answer"
           /\ T(tasks[s].lang, tasks[s].say) = "uz:sell_q_color"

(* C21 *)

\* C21: the step of a session changes only along the linear order: from a
\* step brand..name to the step after it, from phone to Idle, from anywhere
\* to brand (the start trigger) or from anywhere to Idle (cancel).
C21_StepChangesFollowOrder ==
    [][\A u \in Users :
          fsm_state'[u] # fsm_state[u]
          => \/ /\ fsm_state[u] \in StepSet \ {"phone"}
                /\ fsm_state'[u] = NextStep(fsm_state[u])
             \/ fsm_state[u] = "phone" /\ fsm_state'[u] = "none"
             \/ fsm_state'[u] = "brand"
             \/ fsm_state'[u] = "none"]_vars

(* C22 *)

\* C22: a sell_phone that stored its lead ends only after the attempt to
\* notify the last configured admin.
C22_EveryAdminIsTriedForEveryLead ==
    [][\A s \in Slots :
          (/\ tasks[s].h = "phone" /\ tasks[s].say = "sell_done"
           /\ tasks[s].pc \in {"answer", "notify"}
           /\ Ending(s))
          => (tasks[s].pc = "notify" /\ tasks[s].i = Len(Admins))]_vars

(* C23 *)

\* C23: a session at a step model..phone holds a value for the field of
\* every step before it.
C23_FieldsOfStepsPassedArePresent ==
    \A u \in Users :
        fsm_state[u] \in StepSet
        => Preceding(fsm_state[u]) \subseteq DOMAIN fsm_data[u]

(* C28 *)

\* C28: the INSERT of get_user_lang never fails: the handler goes on with
\* the language "ru" and the user has the row "ru".
C28_FirstLookupNeverFails ==
    [][\A s \in Slots :
          (tasks[s].pc = "lang_ins" /\ Stepping(s))
          => (/\ tasks'[s].pc = "body"
              /\ tasks'[s].lang = "ru"
              /\ users'[tasks[s].u] = "ru")]_vars

(* C29 *)

\* The request being handled carries a valid admin cookie: one the
\* application has issued less than CookieLife days ago
HasValidCookie ==
    /\ "cookie" \in DOMAIN req
    /\ req.cookie.kind = "signed"
    /\ req.cookie.ts \in cookies
    /\ now - req.cookie.ts < CookieLife

\* This step creates a brand, a car, a photo row or a file, or answers a
\* request with the list of the leads
CreatesOrLists ==
    \/ brands' # brands
    \/ cars' # cars
    \/ car_photos' # car_photos
    \/ uploads' # uploads
    \/ (req # NoReq /\ req' = NoReq /\ "leads" \in DOMAIN http')

\* This step issues an admin cookie
IssuesCookie ==
    \/ cookies' # cookies
    \/ (req # NoReq /\ req' = NoReq /\ "set_cookie" \in DOMAIN http')

\* C29: only the steps of a request with a valid admin cookie create a
\* brand, a car or a photo or list the leads; a request to a protected
\* route without a valid admin cookie ends with 401 and leaves the store as
\* it is; an admin cookie is issued only by a login with the configured
\* admin password.
C29_AdminPanelNeedsValidCookie ==
    [][/\ CreatesOrLists => HasValidCookie
       /\ (req.pc = "auth" /\ ~HasValidCookie /\ req' # req)
          => (/\ req' = NoReq
              /\ http' = [status |-> 401]
              /\ UNCHANGED <<brands, cars, car_photos, uploads, sell_leads,
                             cookies>>)
       /\ IssuesCookie
          => (/\ req.route = "login"
              /\ req.password = AdminPassword
              /\ http'.set_cookie.ts \in cookies')]_vars

\* A brand was created with a cookie issued on day 0, and on day 30 a
\* request to a protected route was answered with 401
C29_Witness ==
    /\ Len(brands) = 1
    /\ cookies = {0}
    /\ now = CookieLife
    /\ http = [status |-> 401]
    /\ req = NoReq

(* C30 *)

\* The positions of the photo rows of car c
PhotoRowsOf(c) == {i \in DOMAIN car_photos : car_photos[i].car_id = c}

\* Every photo row belongs to a stored car, and a car has at most 5 photo
\* rows, whose sort values are 0..n-1
C30_Rows ==
    /\ \A i \in DOMAIN car_photos : car_photos[i].car_id \in DOMAIN cars
    /\ \A c \in DOMAIN cars :
          /\ Cardinality(PhotoRowsOf(c)) <= 5
          /\ \A k \in 0..(Cardinality(PhotoRowsOf(c)) - 1) :
                \E i \in PhotoRowsOf(c) : car_photos[i].sort = k

\* A step that stores a car stores with it one photo row for each of the
\* first 5 uploaded files, the k-th with sort k-1 and the k-th file; no
\* other step stores a photo row; a step in which saving a file fails ends
\* the request and stores neither
C30_Step ==
    /\ cars' # cars
       => LET n == IF Len(req.photos) < 5 THEN Len(req.photos) ELSE 5
          IN  /\ Len(cars') = Len(cars) + 1
              /\ Len(car_photos') = Len(car_photos) + n
              /\ \A k \in 1..n :
                    LET row == car_photos'[Len(car_photos) + k]
                    IN  /\ row.car_id = Len(cars')
                        /\ row.sort = k - 1
                        /\ row.file_path.name = req.photos[k]
    /\ cars' = cars => car_photos' = car_photos
    /\ faults' # faults
       => (cars' = cars /\ car_photos' = car_photos /\ req' = NoReq)

\* C30: a car created in the admin panel has at most 5 photo rows, with the
\* sort values 0..n-1 in upload order, and the car and its photo rows are
\* stored together or not at all.
C30_CarAndPhotosAllOrNothing == [](C30_Rows) /\ [][C30_Step]_vars

\* After a request that failed while saving a file, a car uploaded with 6
\* files is stored with 5 photo rows
C30_Witness ==
    /\ faults = <<"upload">>
    /\ Len(cars) = 1
    /\ Len(car_photos) = 5
    /\ Len(uploads) > 5
    /\ req = NoReq

(* C24 *)

\* The start triggers among the updates delivered so far, and in the script
TriggersSoFar == Cardinality({i \in 1..pos : script[i] = Trigger})
TriggersInScript == Cardinality({i \in 1..Len(script) : script[i] = Trigger})

\* C24: with the updates handled one after the other, the leads stored are
\* never more than the start triggers delivered, and at the end of a script
\* in which a full pass follows each trigger they are as many as the
\* triggers: what is sent after a completion stores nothing.
C24_NoMoreLeadsThanTriggers ==
    /\ Len(sell_leads) <= TriggersSoFar
    /\ \A i \in DOMAIN sell_leads : sell_leads[i].by = ScriptUser
    /\ SessionDone => Len(sell_leads) = TriggersInScript

\* The valid phone message was delivered a second time and handled
C24_Witness ==
    /\ SessionDone
    /\ Len(script) > 2
    /\ script[Len(script)] = Msg(GoodPhone(ScriptUser))
    /\ script[Len(script) - 1] = Msg(GoodPhone(ScriptUser))
    /\ TriggersInScript = 1
    /\ Len(sell_leads) = 1

(* C25 *)

BrowseHandlers ==
    {"cb_set_lang", "cb_lang_menu", "cb_catalog", "cb_brand", "cb_car",
     "cb_car_contact", "cb_managers"}

\* The first lead holds the trimmed answers of the first pass, each in the
\* field of its step, and the phone
FirstPassStored ==
    /\ sell_leads # <<>>
    /\ \A i \in 1..(Len(Steps) - 1) :
          sell_leads[1][FieldOf(Steps[i])] = Strip(BrowsePass[i].text)
    /\ sell_leads[1].phone = Strip(BrowsePass[Len(Steps)].text)

\* C25: no step of a catalog, manager or language callback, from its
\* delivery to its return, changes the step or the collected fields of a
\* session or the stored leads; the flow goes on where it was, so the lead
\* holds the answers of the pass in the fields of their steps.
C25_BrowsingLeavesSessionsAlone ==
    /\ [][\A s \in Slots :
             (/\ tasks'[s] # tasks[s]
              /\ (tasks[s].h \in BrowseHandlers \/ tasks'[s].h \in BrowseHandlers))
             => UNCHANGED <<fsm_state, fsm_data, sell_leads>>]_vars
    /\ [](SessionDone => FirstPassStored)

\* The language callback with " uz" was handled at step color
C25_Witness ==
    /\ pos > 0
    /\ script[pos] = CbArg("lang:", <<" ", "u", "z">>)
    /\ AllReturned
    /\ users[ScriptUser] = "uz"
    /\ fsm_state[ScriptUser] = "color"
    /\ DOMAIN fsm_data[ScriptUser] = Preceding("color")

(* C26 *)

\* C26: a /start message is taken by cmd_start at every step; the steps of
\* cmd_start change no session and no lead, no collected field or lead
\* field is the /start text, and the lead holds the answers of the pass in
\* the fields of their steps.
C26_StartCommandLeavesSessionAlone ==
    /\ [][/\ (/\ pos' = pos + 1
              /\ script[pos'].kind = "message"
              /\ IsStartCommand(script[pos'].text))
             => (/\ \E s \in Slots : Free(s) /\ tasks'[s].h = "cmd_start"
                 /\ UNCHANGED <<fsm_state, fsm_data, sell_leads>>)
          /\ \A s \in Slots :
                (tasks[s].h = "cmd_start" /\ Stepping(s))
                => UNCHANGED <<fsm_state, fsm_data, sell_leads>>]_vars
    /\ [](\A k \in DOMAIN fsm_data[ScriptUser] :
              ~IsStartCommand(fsm_data[ScriptUser][k]))
    /\ [](SessionDone => FirstPassStored)

\* /start was sent while the phone was asked for, cmd_start returned and
\* the session still asks for the phone with the seven fields
C26_Witness ==
    /\ pos > 0
    /\ script[pos] \in StartCommands
    /\ AllReturned
    /\ response = "ok"
    /\ fsm_state[ScriptUser] = "phone"
    /\ DOMAIN fsm_data[ScriptUser] = Preceding("phone")

(* C27 *)

\* The language set_user_lang stores for what follows "lang:"
StoredLang(arg) == IF Strip(arg) = <<"u", "z">> THEN "uz" ELSE "ru"

\* C27: the language of every users row and of every lead is "ru" or "uz";
\* the first lookup of a user stores "ru", a language callback stores "uz"
\* for "uz" and "ru" for anything else, nothing else changes a users row,
\* and a lead is stored with the language its user has then.
C27_LanguageIsRuOrUz ==
    /\ [](\A u \in Users : users[u] \in {"absent", "ru", "uz"})
    /\ [](\A i \in DOMAIN sell_leads : sell_leads[i].lang \in {"ru", "uz"})
    /\ [][/\ \A s \in Slots :
                /\ (tasks[s].pc = "lang_ins" /\ Stepping(s))
                   => users'[tasks[s].u] = "ru"
                /\ (tasks[s].pc = "set_lang" /\ Stepping(s))
                   => users'[tasks[s].u] = StoredLang(tasks[s].text)
          /\ \A u \in Users :
                users'[u] # users[u]
                => \E s \in Slots :
                      /\ tasks[s].u = u /\ Stepping(s)
                      /\ tasks[s].pc \in {"lang_ins", "set_lang"}
          /\ Len(sell_leads') > Len(sell_leads)
             => LET row == sell_leads'[Len(sell_leads')]
                IN  row.lang = users[row.by]]_vars

\* A user without a row, who got "ru" at the first lookup, chose " uz" on
\* the way and the lead was stored with "uz"
C27_Witness ==
    /\ SessionDone
    /\ \E i \in 1..Len(script) : script[i] = CbArg("lang:", <<" ", "u", "z">>)
    /\ script[Len(script)] = Msg(GoodPhone(ScriptUser))
    /\ script[Len(script) - 1] # Msg(GoodPhone(ScriptUser))
    /\ Len(sell_leads) = 1
    /\ sell_leads[1].lang = "uz"
    /\ notified # {}

(* C31 *)

\* Car c is stored with the active flag 0
Inactive(c) == c \in DOMAIN cars /\ cars[c].active = 0

\* Every car in the last page of the public site and in the message of a
\* handler of the bot is a stored car with the active flag 1
C31_Shown ==
    /\ "cars" \in DOMAIN http
       => \A c \in http.cars : c \in DOMAIN cars /\ cars[c].active = 1
    /\ \A s \in Slots :
          \A c \in tasks[s].shown : c \in DOMAIN cars /\ cars[c].active = 1

\* The page of an inactive car is answered with 404, and the car callback
\* of an inactive car with "not found" and no car
C31_Refused ==
    /\ (/\ req.route = "car_page" /\ req' = NoReq
        /\ Inactive(req.car_id))
       => http' = [status |-> 404]
    /\ \A s \in Slots :
          (/\ tasks[s].h = "cb_car" /\ tasks[s].pc = "body" /\ Stepping(s)
           /\ IsIntText(tasks[s].text) /\ Inactive(IntOf(tasks[s].text)))
          => (/\ tasks'[s].pc = "answer"
              /\ tasks'[s].say = "not_found"
              /\ tasks'[s].shown = {})

\* C31: a car with the active flag 0 is in no result of the web index, of
\* the brand listing of the bot, of the web car page, which answers 404, or
\* of the car callback of the bot, which answers "not found", after any
\* creations of brands and cars.
C31_InactiveCarsAreNeverShown == [](C31_Shown) /\ [][C31_Refused]_vars

\* An inactive and an active car of the same brand are stored, the index
\* listed a car, and the car callback of the inactive car is answering
\* "not found"
C31_Witness ==
    /\ \E c, d \in DOMAIN cars :
          /\ cars[c].active = 0 /\ cars[d].active = 1
          /\ cars[c].brand_id = cars[d].brand_id
          /\ cars[c].brand_id \in DOMAIN brands
          /\ \E s \in Slots :
                /\ tasks[s].h = "cb_car" /\ tasks[s].pc = "answer"
                /\ tasks[s].say = "not_found"
                /\ IntOf(tasks[s].text) = c
    /\ "page" \in DOMAIN http
    /\ http.page = "index"
    /\ http.cars # {}

====
